---- MODULE Spec2Model ----
(***************************************************************************)
(* Model of the campus-guide navigation shell:                             *)
(*   - js/components/Tabs.js   : TabsCommon, the module-level screenStack, *)
(*                               tab switching, forward / back navigation  *)
(*                               and search delegation;                    *)
(*   - src/reducers/header.js  : the header reducer.                       *)
(* JavaScript values whose type matters (undefined, null, booleans,        *)
(* strings, objects) are tagged records, so that truthiness and loose /    *)
(* strict comparisons are computed as JavaScript computes them.            *)
(***************************************************************************)
EXTENDS Integers, Sequences, FiniteSets

VARIABLES
    screenStack,            \* Tabs.js:62   module-level list of screen ids
    routes,                 \* the Navigator's route stack (view layer)
    currentTab,             \* this.state.currentTab
    showBackButton,         \* NavBar state set by _showBackButton
    ignoreNextSearch,       \* this._ignoreNextSearch
    lifecycle,              \* "constructed" | "mounted" | "unmounted"
    searchListeners,        \* SearchManager registry: listener -> priority (0: absent)
    defaultSearchListener,  \* SearchManager default listener
    alwaysSearchAll,        \* Preferences.getAlwaysSearchAll()
    lastCall,               \* the handler that ran last, its arguments and result
    calls,                  \* collaborator calls made by the handler that ran last
    delivered,              \* listeners whose onSearch the last handler invoked
    headerState,            \* state of the header reducer in the store
    lastAction,             \* the action dispatched last (at first the store's own)
    navigateBackActions     \* number of NAVIGATE_BACK actions dispatched so far

tabsVars == <<screenStack, routes, currentTab, showBackButton, ignoreNextSearch,
              lifecycle, lastCall, calls, delivered>>
searchVars == <<searchListeners, defaultSearchListener, alwaysSearchAll>>
headerVars == <<headerState, lastAction, navigateBackActions>>
vars == <<screenStack, routes, currentTab, showBackButton, ignoreNextSearch,
          lifecycle, searchListeners, defaultSearchListener, alwaysSearchAll,
          lastCall, calls, delivered, headerState, lastAction, navigateBackActions>>

----------------------------------------------------------------------------
(* Bounds of the model. *)

\* Deepest navigation stack explored (the code has no maximum depth).
MaxDepth == 3
\* Largest number of NAVIGATE_BACK actions explored.
MaxBack == 3

----------------------------------------------------------------------------
(* JavaScript values. *)

Undefined == [t |-> "undefined"]
Null == [t |-> "null"]
Bool(b) == [t |-> "boolean", v |-> b]
Str(s) == [t |-> "string", v |-> s]

\* ToBoolean: undefined, null, false and the empty string are falsy.
Truthy(x) ==
    CASE x.t = "undefined" -> FALSE
      [] x.t = "null" -> FALSE
      [] x.t = "boolean" -> x.v
      [] x.t = "string" -> x.v # ""
      [] OTHER -> TRUE

\* x != null (loose): false for null and for undefined.
NotNullish(x) == x.t \notin {"undefined", "null"}

----------------------------------------------------------------------------
(* Constants.Views and ScreenUtils (modules outside the given sources). *)

ViewsFindHome == 100
ViewsFindBuilding == 101
ViewsScheduleHome == 200
ViewsDiscoverHome == 300
ViewsSettingsHome == 400
ViewsSearch == 500
ViewsDefault == ViewsFindHome
ViewsDefaultTab == ViewsFindHome

\* Tabs.js:138-143
tabScreens == {ViewsFindHome, ViewsScheduleHome, ViewsDiscoverHome, ViewsSettingsHome}

\* Screens the scenes ask _navigateForward to open: a detail screen, the search
\* results and the home screen of another tab.
Screens == {ViewsFindBuilding, ViewsSearch, ViewsScheduleHome}

\* What screenStack[screenStack.length - 1] reads on an empty array.
UndefinedScreen == -1

\* ScreenUtils.isRootScreen: the id is one of the tabs' home screens.
isRootScreen(id) == id \in tabScreens

----------------------------------------------------------------------------
(* The view layer: React Native's Navigator, driven through refs.Navigator. *)

Route(id, data) == [id |-> id, data |-> data]

\* Navigator.push(route): the route is appended to the route stack.
NavigatorPush(rs, route) == Append(rs, route)

\* Navigator.pop(): the top route is removed; nothing happens on a single route.
NavigatorPop(rs) == IF Len(rs) > 1 THEN SubSeq(rs, 1, Len(rs) - 1) ELSE rs

\* Navigator.resetTo(route): the route stack is replaced by the one route.
NavigatorResetTo(rs, route) == <<route>>

RouteIds(rs) == [i \in 1..Len(rs) |-> rs[i].id]

----------------------------------------------------------------------------
(* SearchManager and Preferences (modules outside the given sources). *)

Listeners == {"L1", "L2"}
ListenerOrder == <<"L1", "L2">>
Priorities == {1, 2}
NoListener == "null"
TabsSearchAll == "TabsCommon._searchAll"
DefaultListeners == {NoListener, TabsSearchAll}

\* SearchManager.numberOfSearchListeners()
numberOfSearchListeners(reg) == Cardinality({l \in Listeners : reg[l] > 0})

\* SearchManager.getHighestPrioritySearchListeners(): the registered listeners
\* of the highest priority present.
getHighestPrioritySearchListeners(reg) ==
    SelectSeq(ListenerOrder,
              LAMBDA l : reg[l] > 0 /\ \A m \in Listeners : reg[m] <= reg[l])

----------------------------------------------------------------------------
(* TabsCommon (Tabs.js). *)

Call(op, screenId, data, ret) ==
    [op |-> op, screenId |-> screenId, data |-> data, ret |-> ret]

\* array.pop(): removes the last element; an empty array stays empty.
ArrayPop(a) == IF Len(a) > 0 THEN SubSeq(a, 1, Len(a) - 1) ELSE a

\* screenStack[screenStack.length - 1]
StackTop(a) == IF Len(a) > 0 THEN a[Len(a)] ELSE UndefinedScreen

\* Tabs.js:190-196
EmptySentinel == 0
getCurrentScreen(a) == IF Len(a) > 0 THEN a[Len(a)] ELSE EmptySentinel

\* Tabs.js:274-278: the effect of _showBackButton(show) on the call log.
ShowBackCall(show) == IF show THEN "NavBar.showBackButton(true)"
                              ELSE "NavBar.showBackButton(false)"

\* _navigateForward with the guard comparing the payload as well as the id.
navigateForwardComparingData(stack, rs, back, screenId, data) ==
    IF getCurrentScreen(stack) = screenId /\ rs[Len(rs)].data = data
    THEN [stack |-> stack, routes |-> rs, back |-> back, calls |-> <<>>]
    ELSE [stack |-> Append(stack, screenId),
          routes |-> NavigatorPush(rs, Route(screenId, data)),
          back |-> IF isRootScreen(getCurrentScreen(stack)) THEN TRUE ELSE back,
          calls |-> (IF isRootScreen(getCurrentScreen(stack))
                     THEN <<ShowBackCall(TRUE)>> ELSE <<>>)
                    \o <<"Navigator.push">>]

\* _navigateForward showing the back button whatever screen was on top.
navigateForwardAlwaysShowingBack(stack, rs, back, screenId, data) ==
    IF getCurrentScreen(stack) = screenId
    THEN [stack |-> stack, routes |-> rs, back |-> back, calls |-> <<>>]
    ELSE [stack |-> Append(stack, screenId),
          routes |-> NavigatorPush(rs, Route(screenId, data)),
          back |-> TRUE,
          calls |-> <<ShowBackCall(TRUE), "Navigator.push">>]

\* Tabs.js:233-248: the effects of _navigateForward(screenId, data) as a record
\* of the new stack, routes, back-button flag and the collaborator calls made.
navigateForward(stack, rs, back, screenId, data) ==
    IF getCurrentScreen(stack) = screenId
    THEN [stack |-> stack, routes |-> rs, back |-> back, calls |-> <<>>]
    ELSE [stack |-> Append(stack, screenId),
          routes |-> NavigatorPush(rs, Route(screenId, data)),
          back |-> IF isRootScreen(getCurrentScreen(stack)) THEN TRUE ELSE back,
          calls |-> (IF isRootScreen(getCurrentScreen(stack))
                     THEN <<ShowBackCall(TRUE)>> ELSE <<>>)
                    \o <<"Navigator.push">>]

\* _navigateBack without the root check.
navigateBackUnguarded(stack, rs, back) ==
    LET popped == ArrayPop(stack)
        hide == isRootScreen(StackTop(popped))
    IN [stack |-> popped,
        routes |-> NavigatorPop(rs),
        back |-> IF hide THEN FALSE ELSE back,
        calls |-> <<"Navigator.pop">>
                  \o (IF hide THEN <<ShowBackCall(FALSE)>> ELSE <<>>),
        ret |-> TRUE]

\* _navigateBack deciding by the depth of the stack instead of the root check.
navigateBackByDepth(stack, rs, back) ==
    IF Len(stack) > 1
    THEN LET popped == ArrayPop(stack)
             hide == isRootScreen(StackTop(popped))
         IN [stack |-> popped,
             routes |-> NavigatorPop(rs),
             back |-> IF hide THEN FALSE ELSE back,
             calls |-> <<"Navigator.pop">>
                       \o (IF hide THEN <<ShowBackCall(FALSE)>> ELSE <<>>),
             ret |-> TRUE]
    ELSE [stack |-> stack, routes |-> rs, back |-> back, calls |-> <<>>,
          ret |-> FALSE]

\* _navigateBack never hiding the back button.
navigateBackKeepingButton(stack, rs, back) ==
    IF ~isRootScreen(StackTop(stack))
    THEN [stack |-> ArrayPop(stack),
          routes |-> NavigatorPop(rs),
          back |-> back,
          calls |-> <<"Navigator.pop">>,
          ret |-> TRUE]
    ELSE [stack |-> stack, routes |-> rs, back |-> back, calls |-> <<>>,
          ret |-> FALSE]

\* Tabs.js:212-225: the effects of _navigateBack().
navigateBack(stack, rs, back) ==
    IF ~isRootScreen(StackTop(stack))
    THEN LET popped == ArrayPop(stack)
             hide == isRootScreen(StackTop(popped))
         IN [stack |-> popped,
             routes |-> NavigatorPop(rs),
             back |-> IF hide THEN FALSE ELSE back,
             calls |-> <<"Navigator.pop">>
                       \o (IF hide THEN <<ShowBackCall(FALSE)>> ELSE <<>>),
             ret |-> TRUE]
    ELSE [stack |-> stack, routes |-> rs, back |-> back, calls |-> <<>>,
          ret |-> FALSE]

\* _searchAll without the check for empty search terms.
searchAllOnEmptyTerms(stack, rs, back, searchTerms) ==
    IF getCurrentScreen(stack) # ViewsSearch /\ NotNullish(searchTerms)
    THEN navigateForward(stack, rs, back, ViewsSearch, searchTerms)
    ELSE [stack |-> stack, routes |-> rs, back |-> back, calls |-> <<>>]

\* Tabs.js:262-267: the effects of _searchAll(searchTerms).
searchAll(stack, rs, back, searchTerms) ==
    IF getCurrentScreen(stack) # ViewsSearch
       /\ NotNullish(searchTerms) /\ searchTerms.v # ""
    THEN navigateForward(stack, rs, back, ViewsSearch, searchTerms)
    ELSE [stack |-> stack, routes |-> rs, back |-> back, calls |-> <<>>]

----------------------------------------------------------------------------
(* The header reducer (header.js). *)

\* header.js:46-49
defaultTitle ==
    [t |-> "object", name_en |-> "Campus Guide", name_fr |-> "Guide de campus"]

\* header.js:52-57
initialState ==
    [backNavigation |-> 0,
     title |-> defaultTitle,
     shouldShowBack |-> Bool(FALSE),
     shouldShowSearch |-> Bool(FALSE)]

\* a || b
Or(a, b) == IF Truthy(a) THEN a ELSE b

\* The reducer answering an unrecognised action with the initial state.
headerResettingOnUnknown(state, action) ==
    LET st == IF state = Undefined THEN initialState ELSE state
    IN CASE action.type = Str("NAVIGATE_BACK") ->
              [st EXCEPT !.backNavigation = st.backNavigation + 1]
         [] action.type = Str("SET_HEADER_TITLE") ->
              [st EXCEPT !.title = Or(action.title, initialState.title)]
         [] action.type = Str("HEADER_SHOW_BACK") ->
              [st EXCEPT !.shouldShowBack = action.shouldShowBack]
         [] action.type = Str("HEADER_SHOW_SEARCH") ->
              [st EXCEPT !.shouldShowSearch = action.shouldShowSearch]
         [] OTHER -> initialState

\* The reducer building the titled state from the initial state instead of
\* the current one.
headerTitleFromInitial(state, action) ==
    LET st == IF state = Undefined THEN initialState ELSE state
    IN CASE action.type = Str("NAVIGATE_BACK") ->
              [st EXCEPT !.backNavigation = st.backNavigation + 1]
         [] action.type = Str("SET_HEADER_TITLE") ->
              [initialState EXCEPT !.title = Or(action.title, initialState.title)]
         [] action.type = Str("HEADER_SHOW_BACK") ->
              [st EXCEPT !.shouldShowBack = action.shouldShowBack]
         [] action.type = Str("HEADER_SHOW_SEARCH") ->
              [st EXCEPT !.shouldShowSearch = action.shouldShowSearch]
         [] OTHER -> st

\* The reducer with HEADER_SHOW_SEARCH writing the back-button field.
headerSearchWritesBack(state, action) ==
    LET st == IF state = Undefined THEN initialState ELSE state
    IN CASE action.type = Str("NAVIGATE_BACK") ->
              [st EXCEPT !.backNavigation = st.backNavigation + 1]
         [] action.type = Str("SET_HEADER_TITLE") ->
              [st EXCEPT !.title = Or(action.title, initialState.title)]
         [] action.type = Str("HEADER_SHOW_BACK") ->
              [st EXCEPT !.shouldShowBack = action.shouldShowBack]
         [] action.type = Str("HEADER_SHOW_SEARCH") ->
              [st EXCEPT !.shouldShowBack = action.shouldShowSearch]
         [] OTHER -> st

\* The reducer without the fallback to the default title.
headerWithoutTitleFallback(state, action) ==
    LET st == IF state = Undefined THEN initialState ELSE state
    IN CASE action.type = Str("NAVIGATE_BACK") ->
              [st EXCEPT !.backNavigation = st.backNavigation + 1]
         [] action.type = Str("SET_HEADER_TITLE") ->
              [st EXCEPT !.title = action.title]
         [] action.type = Str("HEADER_SHOW_BACK") ->
              [st EXCEPT !.shouldShowBack = action.shouldShowBack]
         [] action.type = Str("HEADER_SHOW_SEARCH") ->
              [st EXCEPT !.shouldShowSearch = action.shouldShowSearch]
         [] OTHER -> st

\* header.js:66-91. A property the action object lacks reads as undefined.
header(state, action) ==
    LET st == IF state = Undefined THEN initialState ELSE state
    IN CASE action.type = Str("NAVIGATE_BACK") ->
              [st EXCEPT !.backNavigation = st.backNavigation + 1]
         [] action.type = Str("SET_HEADER_TITLE") ->
              [st EXCEPT !.title = Or(action.title, initialState.title)]
         [] action.type = Str("HEADER_SHOW_BACK") ->
              [st EXCEPT !.shouldShowBack = action.shouldShowBack]
         [] action.type = Str("HEADER_SHOW_SEARCH") ->
              [st EXCEPT !.shouldShowSearch = action.shouldShowSearch]
         [] OTHER -> st

Action(type, title, back, search) ==
    [type |-> type, title |-> title, shouldShowBack |-> back,
     shouldShowSearch |-> search]

RecognisedTypes ==
    {Str("NAVIGATE_BACK"), Str("SET_HEADER_TITLE"), Str("HEADER_SHOW_BACK"),
     Str("HEADER_SHOW_SEARCH")}

\* Action objects handed to the reducer, well formed or not: an unknown or
\* missing type, a missing, null or empty title, a missing boolean.
ActionTypes == RecognisedTypes \cup {Str("UNKNOWN"), Undefined}
Titles ==
    {Undefined, Null, Str(""), Str("Settings"),
     [t |-> "object", name_en |-> "Find", name_fr |-> "Trouver"]}
Flags == {Undefined, Bool(TRUE), Bool(FALSE)}
Actions ==
    {Action(ty, ti, b, s) : ty \in ActionTypes, ti \in Titles, b \in Flags, s \in Flags}

\* Payloads scenes pass along with a screen, and the search box's contents.
Data == {Undefined, Str("pizza")}
SearchTerms == {Null, Str(""), Str("cafe")}

Init ==
    /\ screenStack = <<ViewsDefault>>
    /\ routes = <<Route(ViewsDefault, Undefined)>>
    /\ currentTab = ViewsDefaultTab
    /\ showBackButton = FALSE
    /\ ignoreNextSearch = Undefined
    /\ lifecycle = "constructed"
    /\ searchListeners = [l \in Listeners |-> 0]
    /\ defaultSearchListener = NoListener
    /\ alwaysSearchAll = FALSE
    /\ lastCall = Call("constructor", 0, Undefined, Undefined)
    /\ calls = <<>>
    /\ delivered = <<>>
    /\ headerState = initialState
    /\ lastAction = Action(Str("@@redux/INIT"), Undefined, Undefined, Undefined)
    /\ navigateBackActions = 0

\* Tabs.js:116-124
componentDidMount ==
    /\ lifecycle = "constructed"
    /\ lifecycle' = "mounted"
    /\ defaultSearchListener' = TabsSearchAll
    /\ lastCall' = Call("componentDidMount", 0, Undefined, Undefined)
    /\ calls' = <<"SearchManager.setDefaultSearchListener">>
    /\ delivered' = <<>>
    /\ UNCHANGED <<screenStack, routes, currentTab, showBackButton, ignoreNextSearch,
                   searchListeners, alwaysSearchAll, headerVars>>

\* Tabs.js:129-135
componentWillUnmount ==
    /\ lifecycle = "mounted"
    /\ lifecycle' = "unmounted"
    /\ defaultSearchListener' = NoListener
    /\ lastCall' = Call("componentWillUnmount", 0, Undefined, Undefined)
    /\ calls' = <<"SearchManager.setDefaultSearchListener">>
    /\ delivered' = <<>>
    /\ UNCHANGED <<screenStack, routes, currentTab, showBackButton, ignoreNextSearch,
                   searchListeners, alwaysSearchAll, headerVars>>

\* _changeTabs without the assignment to screenStack.
changeTabsKeepingStack(tab) ==
    /\ lifecycle = "mounted"
    /\ ignoreNextSearch' = Bool(TRUE)
    /\ showBackButton' = FALSE
    /\ routes' = NavigatorResetTo(routes, Route(tab, Undefined))
    /\ currentTab' = tab
    /\ lastCall' = Call("_changeTabs", tab, Undefined, Undefined)
    /\ calls' = <<"SearchManager.resumeAllSearchListeners", ShowBackCall(FALSE),
                  "NavBar.clearSearch", "Navigator.resetTo">>
    /\ delivered' = <<>>
    /\ UNCHANGED <<screenStack, lifecycle, searchVars, headerVars>>

\* _changeTabs without the setState of currentTab.
changeTabsKeepingTab(tab) ==
    /\ lifecycle = "mounted"
    /\ ignoreNextSearch' = Bool(TRUE)
    /\ showBackButton' = FALSE
    /\ routes' = NavigatorResetTo(routes, Route(tab, Undefined))
    /\ screenStack' = <<tab>>
    /\ lastCall' = Call("_changeTabs", tab, Undefined, Undefined)
    /\ calls' = <<"SearchManager.resumeAllSearchListeners", ShowBackCall(FALSE),
                  "NavBar.clearSearch", "Navigator.resetTo">>
    /\ delivered' = <<>>
    /\ UNCHANGED <<currentTab, lifecycle, searchVars, headerVars>>

\* Tabs.js:153-164
changeTabs(tab) ==
    /\ lifecycle = "mounted"
    /\ ignoreNextSearch' = Bool(TRUE)
    /\ showBackButton' = FALSE
    /\ routes' = NavigatorResetTo(routes, Route(tab, Undefined))
    /\ currentTab' = tab
    /\ screenStack' = <<tab>>
    /\ lastCall' = Call("_changeTabs", tab, Undefined, Undefined)
    /\ calls' = <<"SearchManager.resumeAllSearchListeners", ShowBackCall(FALSE),
                  "NavBar.clearSearch", "Navigator.resetTo">>
    /\ delivered' = <<>>
    /\ UNCHANGED <<lifecycle, searchVars, headerVars>>

\* _navigateBack dispatching NAVIGATE_BACK to the store when it navigated.
navigateBackHandlerDispatching ==
    /\ lifecycle = "mounted"
    /\ LET r == navigateBack(screenStack, routes, showBackButton)
       IN /\ screenStack' = r.stack
          /\ routes' = r.routes
          /\ showBackButton' = r.back
          /\ calls' = r.calls
          /\ lastCall' = Call("_navigateBack", 0, Undefined, Bool(r.ret))
          /\ headerState' =
                 IF r.ret /\ headerState.backNavigation < MaxBack
                 THEN header(headerState, [type |-> Str("NAVIGATE_BACK")])
                 ELSE headerState
    /\ delivered' = <<>>
    /\ UNCHANGED <<currentTab, ignoreNextSearch, lifecycle, searchVars, lastAction,
                   navigateBackActions>>

\* Tabs.js:212-225, invoked by the NavBar's back button (Tabs.js:357) and by
\* the hardware back button (Tabs.js:122).
navigateBackHandler ==
    /\ lifecycle = "mounted"
    /\ LET r == navigateBack(screenStack, routes, showBackButton)
       IN /\ screenStack' = r.stack
          /\ routes' = r.routes
          /\ showBackButton' = r.back
          /\ calls' = r.calls
          /\ lastCall' = Call("_navigateBack", 0, Undefined, Bool(r.ret))
    /\ delivered' = <<>>
    /\ UNCHANGED <<currentTab, ignoreNextSearch, lifecycle, searchVars, headerVars>>

\* Tabs.js:233-248, invoked by the scenes (Tabs.js:317-322).
navigateForwardHandler(screenId, data) ==
    /\ lifecycle = "mounted"
    /\ (getCurrentScreen(screenStack) = screenId \/ Len(screenStack) < MaxDepth)
    /\ LET r == navigateForward(screenStack, routes, showBackButton, screenId, data)
       IN /\ screenStack' = r.stack
          /\ routes' = r.routes
          /\ showBackButton' = r.back
          /\ calls' = r.calls
    /\ lastCall' = Call("_navigateForward", screenId, data, Undefined)
    /\ delivered' = <<>>
    /\ UNCHANGED <<currentTab, ignoreNextSearch, lifecycle, searchVars, headerVars>>

\* The listener's onSearch: the component's own default listener is _searchAll
\* (Tabs.js:117-119); any other listener belongs to another screen.
ListenerOnSearch(l, st, searchTerms) ==
    IF l = TabsSearchAll
    THEN searchAll(st.stack, st.routes, st.back, searchTerms)
    ELSE [stack |-> st.stack, routes |-> st.routes, back |-> st.back, calls |-> <<>>]

\* _onSearch passing the terms to the default listener as well.
onSearchTargetsWithDefault(ignore, reg, always, default) ==
    IF Truthy(ignore)
    THEN <<>>
    ELSE (IF numberOfSearchListeners(reg) > 0 /\ ~always
          THEN getHighestPrioritySearchListeners(reg) ELSE <<>>)
         \o (IF default # NoListener THEN <<default>> ELSE <<>>)

\* Tabs.js:285-309: the listeners _onSearch passes the search terms to, in order.
onSearchTargets(ignore, reg, always, default) ==
    IF Truthy(ignore)
    THEN <<>>
    ELSE IF numberOfSearchListeners(reg) > 0 /\ ~always
         THEN getHighestPrioritySearchListeners(reg)
         ELSE IF default # NoListener THEN <<default>> ELSE <<>>

\* Tabs.js:297-307: onSearch(searchTerms) of each target in turn.
RECURSIVE DeliverAll(_, _, _)
DeliverAll(targets, st, searchTerms) ==
    IF targets = <<>>
    THEN st
    ELSE LET r == ListenerOnSearch(Head(targets), st, searchTerms)
         IN DeliverAll(Tail(targets),
                       [r EXCEPT !.calls = st.calls \o r.calls], searchTerms)

\* _onSearch leaving _ignoreNextSearch set after it swallowed a search.
onSearchKeepingFlag(searchTerms) ==
    /\ lifecycle = "mounted"
    /\ LET targets == onSearchTargets(ignoreNextSearch, searchListeners,
                                      alwaysSearchAll, defaultSearchListener)
           r == DeliverAll(targets,
                           [stack |-> screenStack, routes |-> routes,
                            back |-> showBackButton, calls |-> <<>>],
                           searchTerms)
       IN /\ Len(r.stack) <= MaxDepth
          /\ delivered' = targets
          /\ screenStack' = r.stack
          /\ routes' = r.routes
          /\ showBackButton' = r.back
          /\ calls' = r.calls
    /\ lastCall' = Call("_onSearch", 0, searchTerms, Undefined)
    /\ UNCHANGED <<ignoreNextSearch, currentTab, lifecycle, searchVars, headerVars>>

\* Tabs.js:285-309, invoked by the NavBar's search box (Tabs.js:358).
onSearch(searchTerms) ==
    /\ lifecycle = "mounted"
    /\ LET targets == onSearchTargets(ignoreNextSearch, searchListeners,
                                      alwaysSearchAll, defaultSearchListener)
           r == DeliverAll(targets,
                           [stack |-> screenStack, routes |-> routes,
                            back |-> showBackButton, calls |-> <<>>],
                           searchTerms)
       IN /\ Len(r.stack) <= MaxDepth
          /\ delivered' = targets
          /\ screenStack' = r.stack
          /\ routes' = r.routes
          /\ showBackButton' = r.back
          /\ calls' = r.calls
    /\ ignoreNextSearch' = IF Truthy(ignoreNextSearch) THEN Bool(FALSE)
                                                       ELSE ignoreNextSearch
    /\ lastCall' = Call("_onSearch", 0, searchTerms, Undefined)
    /\ UNCHANGED <<currentTab, lifecycle, searchVars, headerVars>>

----------------------------------------------------------------------------
(* The rest of the application, acting on SearchManager and Preferences. *)

addSearchListener(l, priority) ==
    /\ searchListeners' = [searchListeners EXCEPT ![l] = priority]
    /\ lastCall' = Call("SearchManager.addSearchListener", 0, Undefined, Undefined)
    /\ calls' = <<>>
    /\ delivered' = <<>>
    /\ UNCHANGED <<screenStack, routes, currentTab, showBackButton, ignoreNextSearch,
                   lifecycle, defaultSearchListener, alwaysSearchAll, headerVars>>

removeSearchListener(l) ==
    /\ searchListeners[l] > 0
    /\ searchListeners' = [searchListeners EXCEPT ![l] = 0]
    /\ lastCall' = Call("SearchManager.removeSearchListener", 0, Undefined, Undefined)
    /\ calls' = <<>>
    /\ delivered' = <<>>
    /\ UNCHANGED <<screenStack, routes, currentTab, showBackButton, ignoreNextSearch,
                   lifecycle, defaultSearchListener, alwaysSearchAll, headerVars>>

setDefaultSearchListener(l) ==
    /\ defaultSearchListener' = l
    /\ lastCall' = Call("SearchManager.setDefaultSearchListener", 0, Undefined, Undefined)
    /\ calls' = <<>>
    /\ delivered' = <<>>
    /\ UNCHANGED <<screenStack, routes, currentTab, showBackButton, ignoreNextSearch,
                   lifecycle, searchListeners, alwaysSearchAll, headerVars>>

setAlwaysSearchAll(b) ==
    /\ alwaysSearchAll' = b
    /\ lastCall' = Call("Preferences.setAlwaysSearchAll", 0, Undefined, Undefined)
    /\ calls' = <<>>
    /\ delivered' = <<>>
    /\ UNCHANGED <<screenStack, routes, currentTab, showBackButton, ignoreNextSearch,
                   lifecycle, searchListeners, defaultSearchListener, headerVars>>

\* The store hands the action to the reducer and keeps the state it returns.
Dispatch(action) ==
    /\ action.type = Str("NAVIGATE_BACK") => navigateBackActions < MaxBack
    /\ headerState' = header(headerState, action)
    /\ lastAction' = action
    /\ navigateBackActions' =
           IF action.type = Str("NAVIGATE_BACK") THEN navigateBackActions + 1
                                                 ELSE navigateBackActions
    /\ lastCall' = Call("store.dispatch", 0, Undefined, Undefined)
    /\ calls' = <<>>
    /\ delivered' = <<>>
    /\ UNCHANGED <<screenStack, routes, currentTab, showBackButton, ignoreNextSearch,
                   lifecycle, searchVars>>

----------------------------------------------------------------------------
(* Specifications. *)

\* The tabs component and its collaborators.
Next ==
    \/ componentDidMount
    \/ componentWillUnmount
    \/ \E tab \in tabScreens : changeTabs(tab)
    \/ navigateBackHandler
    \/ \E screenId \in Screens, data \in Data : navigateForwardHandler(screenId, data)
    \/ \E searchTerms \in SearchTerms : onSearch(searchTerms)
    \/ \E l \in Listeners, p \in Priorities : addSearchListener(l, p)
    \/ \E l \in Listeners : removeSearchListener(l)
    \/ \E l \in DefaultListeners : setDefaultSearchListener(l)
    \/ \E b \in BOOLEAN : setAlwaysSearchAll(b)

Spec == Init /\ [][Next]_vars

\* The header reducer on its own, fed every action shape.
NextHeader == \E action \in Actions : Dispatch(action)

SpecHeader == Init /\ [][NextHeader]_vars

\* Navigation together with the store.
AppActions ==
    {Action(Str("NAVIGATE_BACK"), Undefined, Undefined, Undefined),
     Action(Str("HEADER_SHOW_BACK"), Undefined, Bool(TRUE), Undefined),
     Action(Str("HEADER_SHOW_BACK"), Undefined, Bool(FALSE), Undefined)}

NextApp ==
    \/ componentDidMount
    \/ \E tab \in tabScreens : changeTabs(tab)
    \/ navigateBackHandler
    \/ \E screenId \in Screens, data \in Data : navigateForwardHandler(screenId, data)
    \/ \E action \in AppActions : Dispatch(action)

SpecApp == Init /\ [][NextApp]_vars

----------------------------------------------------------------------------
(* Properties. *)

\* C1: in every state reachable by tab switches, forward navigations, back
\* navigations and searches the navigation stack holds at least one element;
\* back navigation on a freshly reset stack never brings it below one.
C1_StackNeverEmpty == Len(screenStack) >= 1

\* A back navigation was attempted on a stack a tab switch had just reset.
C1_Witness ==
    /\ lastCall.op = "_navigateBack"
    /\ Len(screenStack) = 1
    /\ ignoreNextSearch = Bool(TRUE)

\* C2: when the screen on top of the stack is a root screen, _navigateBack
\* returns false and changes nothing: the stack and the routes of the view
\* layer stay as they are and no back-button update is issued.
C2_BackAtRootRejected ==
    [][(lastCall'.op = "_navigateBack" /\ isRootScreen(StackTop(screenStack)))
         => /\ lastCall'.ret = Bool(FALSE)
            /\ screenStack' = screenStack
            /\ routes' = routes
            /\ showBackButton' = showBackButton
            /\ calls' = <<>>]_vars

\* A back navigation was rejected on a stack deeper than one whose top is a root.
C2_Witness ==
    /\ lastCall.op = "_navigateBack"
    /\ lastCall.ret = Bool(FALSE)
    /\ Len(screenStack) > 1
    /\ isRootScreen(StackTop(screenStack))

\* C3: _navigateForward(X, data) with X the screen on top of the stack changes
\* nothing whatever the data, so two calls in a row with the same X add at most
\* one entry, that of the first call.
C3_DuplicatePushIgnored ==
    [][/\ (lastCall'.op = "_navigateForward"
             /\ lastCall'.screenId = getCurrentScreen(screenStack))
          => /\ screenStack' = screenStack
             /\ routes' = routes
             /\ showBackButton' = showBackButton
             /\ calls' = <<>>
       /\ (lastCall.op = "_navigateForward" /\ lastCall'.op = "_navigateForward"
             /\ lastCall'.screenId = lastCall.screenId)
          => screenStack' = screenStack]_vars

\* A forward navigation to the screen already showing, with other data than the
\* route showing carries, was ignored.
C3_Witness ==
    /\ lastCall.op = "_navigateForward"
    /\ lastCall.screenId = StackTop(screenStack)
    /\ calls = <<>>
    /\ lastCall.data # routes[Len(routes)].data

C5_CounterCountsNavigateBack ==
    /\ headerState.backNavigation = navigateBackActions
    /\ headerState.backNavigation >= 0

\* Two NAVIGATE_BACK actions were followed by an action of another kind.
C5_Witness ==
    /\ navigateBackActions >= 2
    /\ lastAction.type = Str("SET_HEADER_TITLE")

\* C6: an action whose type is none of the four recognised ones leaves all
\* four fields of the header state as they were.
C6_UnknownActionIsIdentity ==
    [][(lastCall'.op = "store.dispatch" /\ lastAction'.type \notin RecognisedTypes)
         => /\ headerState'.backNavigation = headerState.backNavigation
            /\ headerState'.title = headerState.title
            /\ headerState'.shouldShowBack = headerState.shouldShowBack
            /\ headerState'.shouldShowSearch = headerState.shouldShowSearch]_vars

\* An action of unknown type was applied to a state in which every field
\* differs from the initial state.
C6_Witness ==
    /\ lastAction.type = Str("UNKNOWN")
    /\ headerState.backNavigation > 0
    /\ headerState.title # defaultTitle
    /\ headerState.shouldShowBack = Bool(TRUE)
    /\ headerState.shouldShowSearch = Bool(TRUE)

\* C7: each recognised action changes only its own field: HEADER_SHOW_BACK sets
\* shouldShowBack, and HEADER_SHOW_SEARCH shouldShowSearch, to the boolean the
\* action carries; NAVIGATE_BACK changes only the counter and SET_HEADER_TITLE
\* only the title.
C7_OnlyOwnFieldChanges ==
    [][lastCall'.op = "store.dispatch" =>
         /\ lastAction'.type # Str("NAVIGATE_BACK")
              => headerState'.backNavigation = headerState.backNavigation
         /\ lastAction'.type # Str("SET_HEADER_TITLE")
              => headerState'.title = headerState.title
         /\ lastAction'.type # Str("HEADER_SHOW_BACK")
              => headerState'.shouldShowBack = headerState.shouldShowBack
         /\ lastAction'.type # Str("HEADER_SHOW_SEARCH")
              => headerState'.shouldShowSearch = headerState.shouldShowSearch
         /\ (lastAction'.type = Str("HEADER_SHOW_BACK")
               /\ lastAction'.shouldShowBack.t = "boolean")
              => headerState'.shouldShowBack = lastAction'.shouldShowBack
         /\ (lastAction'.type = Str("HEADER_SHOW_SEARCH")
               /\ lastAction'.shouldShowSearch.t = "boolean")
              => headerState'.shouldShowSearch = lastAction'.shouldShowSearch]_vars

\* HEADER_SHOW_BACK carrying true was applied and the other three fields hold
\* values other than the initial ones.
C7_Witness ==
    /\ lastAction.type = Str("HEADER_SHOW_BACK")
    /\ lastAction.shouldShowBack = Bool(TRUE)
    /\ headerState.shouldShowBack = Bool(TRUE)
    /\ headerState.backNavigation > 0
    /\ headerState.title # defaultTitle
    /\ headerState.shouldShowSearch = Bool(TRUE)

\* C8: whatever action the reducer is given, the state it returns has a counter
\* that is an integer >= 0 and booleans in shouldShowBack and shouldShowSearch.
C8_ReducerKeepsStateType ==
    /\ headerState.backNavigation \in Nat
    /\ headerState.shouldShowBack.t = "boolean"
    /\ headerState.shouldShowSearch.t = "boolean"

\* C9 as stated: SET_HEADER_TITLE sets the title to action.title when one is
\* present and not null, and to the default title otherwise.
C9_TitleSetWhenNotNull ==
    [][(lastCall'.op = "store.dispatch"
          /\ lastAction'.type = Str("SET_HEADER_TITLE"))
         => headerState'.title =
                IF NotNullish(lastAction'.title) THEN lastAction'.title
                                                 ELSE defaultTitle]_vars

\* C9 as amended: SET_HEADER_TITLE sets the title to action.title when that is
\* truthy, and to the default title when it is missing, null or another falsy
\* value such as the empty string; the title is never left undefined.
C9_TitleSetWhenTruthy ==
    [][(lastCall'.op = "store.dispatch"
          /\ lastAction'.type = Str("SET_HEADER_TITLE"))
         => /\ lastAction'.title \in {Undefined, Null, Str("")}
                 => headerState'.title = defaultTitle
            /\ lastAction'.title \notin {Undefined, Null, Str("")}
                 => headerState'.title = lastAction'.title
            /\ headerState'.title # Undefined]_vars

\* An empty title was dispatched and the header shows the default title.
C9_Witness ==
    /\ lastAction.type = Str("SET_HEADER_TITLE")
    /\ lastAction.title = Str("")
    /\ headerState.title = defaultTitle

\* C10: a search that is not suppressed goes to one class of destination: with
\* a listener registered and 'always search all' off, once to each listener of
\* the highest priority registered and to nobody else, the default listener
\* included; otherwise once to the default listener if there is one; otherwise
\* to nobody.
C10_SearchRouting ==
    [][(lastCall'.op = "_onSearch" /\ ~Truthy(ignoreNextSearch)) =>
         LET registered == {l \in Listeners : searchListeners[l] > 0}
             tier == {l \in registered :
                        \A m \in registered : searchListeners[m] <= searchListeners[l]}
         IN IF registered # {} /\ ~alwaysSearchAll
            THEN /\ {delivered'[i] : i \in 1..Len(delivered')} = tier
                 /\ Len(delivered') = Cardinality(tier)
                 /\ screenStack' = screenStack
            ELSE IF defaultSearchListener # NoListener
                 THEN delivered' = <<defaultSearchListener>>
                 ELSE delivered' = <<>>]_vars

\* With listeners of two priorities and a default listener registered, a search
\* went to the listener of the higher priority alone.
C10_Witness ==
    /\ lastCall.op = "_onSearch"
    /\ searchListeners["L1"] = 2
    /\ searchListeners["L2"] = 1
    /\ defaultSearchListener = TabsSearchAll
    /\ ~alwaysSearchAll
    /\ delivered = <<"L1">>

\* C11: a tab switch sets the suppression flag; the next search is swallowed,
\* reaching no listener and changing nothing but the flag, which it clears; a
\* search met with the flag clear is delivered wherever there is a destination.
\* Only a tab switch sets the flag and only a search clears it, so several tab
\* switches before a search suppress one search only.
C11_OneSearchSuppressed ==
    [][/\ lastCall'.op = "_changeTabs" => ignoreNextSearch' = Bool(TRUE)
       /\ (lastCall'.op = "_onSearch" /\ ignoreNextSearch = Bool(TRUE))
            => /\ delivered' = <<>>
               /\ calls' = <<>>
               /\ screenStack' = screenStack
               /\ routes' = routes
               /\ ignoreNextSearch' = Bool(FALSE)
       /\ (lastCall'.op = "_onSearch" /\ ignoreNextSearch # Bool(TRUE))
            => /\ ignoreNextSearch' = ignoreNextSearch
               /\ delivered' = <<>>
                    <=> /\ defaultSearchListener = NoListener
                        /\ \/ alwaysSearchAll
                           \/ \A l \in Listeners : searchListeners[l] = 0
       /\ lastCall'.op \notin {"_changeTabs", "_onSearch"}
            => ignoreNextSearch' = ignoreNextSearch]_vars

\* After a tab switch and the search it suppressed, a search reached the
\* default listener.
C11_Witness ==
    /\ lastCall.op = "_onSearch"
    /\ ignoreNextSearch = Bool(FALSE)
    /\ delivered = <<TabsSearchAll>>

\* C12: from a stack with a root on top, _navigateForward(X, data) with X not a
\* root appends X, and the _navigateBack that follows returns true, removes X
\* again so that the stack is what it was, and hides the back button.
C12_ForwardThenBackRestores ==
    [][/\ (lastCall'.op = "_navigateForward"
             /\ isRootScreen(StackTop(screenStack))
             /\ ~isRootScreen(lastCall'.screenId))
          => screenStack' = Append(screenStack, lastCall'.screenId)
       /\ (lastCall.op = "_navigateForward" /\ calls # <<>>
             /\ ~isRootScreen(lastCall.screenId)
             /\ Len(screenStack) > 1
             /\ isRootScreen(screenStack[Len(screenStack) - 1])
             /\ lastCall'.op = "_navigateBack")
          => /\ lastCall'.ret = Bool(TRUE)
             /\ Append(screenStack', lastCall.screenId) = screenStack
             /\ showBackButton' = FALSE
             /\ calls' = <<"Navigator.pop", ShowBackCall(FALSE)>>]_vars

\* A back navigation returned to a root screen that is not the bottom of the
\* stack and hid the back button.
C12_Witness ==
    /\ lastCall.op = "_navigateBack"
    /\ lastCall.ret = Bool(TRUE)
    /\ Len(screenStack) > 1
    /\ isRootScreen(StackTop(screenStack))
    /\ ~showBackButton

C14_TabSwitchResets ==
    lastCall.op = "_changeTabs"
        => /\ screenStack = <<lastCall.screenId>>
           /\ currentTab = lastCall.screenId
           /\ ~showBackButton
           /\ routes = <<Route(lastCall.screenId, Undefined)>>
           /\ "Navigator.resetTo" \in {calls[i] : i \in 1..Len(calls)}

\* The tabs were switched to a tab other than the default one.
C14_Witness ==
    /\ lastCall.op = "_changeTabs"
    /\ lastCall.screenId = ViewsSettingsHome
    /\ screenStack = <<ViewsSettingsHome>>

\* C15: a search handed to the default listener _searchAll appends the search
\* screen when the terms are neither null nor empty and the search screen is
\* not the one showing, and otherwise leaves the stack alone; the search screen
\* is never on the stack twice in a row.
C15_SearchAllNavigatesOnce ==
    [][/\ lastCall'.op = "_onSearch"
            => IF /\ delivered' = <<TabsSearchAll>>
                  /\ NotNullish(lastCall'.data)
                  /\ lastCall'.data # Str("")
                  /\ getCurrentScreen(screenStack) # ViewsSearch
               THEN screenStack' = Append(screenStack, ViewsSearch)
               ELSE screenStack' = screenStack
       /\ \A i \in 1..(Len(screenStack') - 1) :
            ~(screenStack'[i] = ViewsSearch /\ screenStack'[i + 1] = ViewsSearch)]_vars

\* Terms that are not empty reached _searchAll while the search screen was
\* showing, and nothing was pushed.
C15_Witness ==
    /\ lastCall.op = "_onSearch"
    /\ lastCall.data = Str("cafe")
    /\ delivered = <<TabsSearchAll>>
    /\ StackTop(screenStack) = ViewsSearch
    /\ calls = <<>>

\* C16: the back button is shown exactly when the screen on top of the stack
\* is not a root, so that _navigateBack succeeds whenever the button is shown.
C16_BackButtonIffNotRoot ==
    showBackButton <=> ~isRootScreen(StackTop(screenStack))

\* C17: the ids of the Navigator's routes and screenStack are the same sequence
\* after every operation.
C17_RoutesMatchStack == RouteIds(routes) = screenStack

\* A back navigation popped a route and left more than one.
C17_Witness ==
    /\ lastCall.op = "_navigateBack"
    /\ lastCall.ret = Bool(TRUE)
    /\ Len(routes) = 2
    /\ RouteIds(routes) = screenStack

\* C18: once the tabs have been switched, the bottom of the stack is the
\* current tab; forward and back navigation change neither.
C18_BottomIsCurrentTab ==
    [][/\ ignoreNextSearch' # Undefined
            => (Len(screenStack') > 0 /\ screenStack'[1] = currentTab')
       /\ lastCall'.op \in {"_navigateForward", "_navigateBack"}
            => /\ Len(screenStack') > 0
               /\ screenStack'[1] = screenStack[1]
               /\ currentTab' = currentTab]_vars

\* After a switch to the settings tab a screen was opened and left again.
C18_Witness ==
    /\ lastCall.op = "_navigateBack"
    /\ lastCall.ret = Bool(TRUE)
    /\ currentTab = ViewsSettingsHome
    /\ screenStack = <<ViewsSettingsHome>>

====
